---------------------------- MODULE Spec2Model ----------------------------
(***************************************************************************)
(* SPARK35: the HP-35 microcode engine (process_rom), the key dispatcher   *)
(* and the script sequencer of loop(), as a state machine.                 *)
(*                                                                         *)
(* One iteration of loop() is three steps, in program order:               *)
(*   "key"  lines 741-765  execute the key sampled by the previous scan    *)
(*   "rom"  line  767      process_rom(): one microcycle                   *)
(*   "seq"  lines 769-778  the sequencer, then getkey()                    *)
(***************************************************************************)
EXTENDS Integers, Sequences, FiniteSets, TLC

(***************************************************************************)
(* Program constants                                                       *)
(***************************************************************************)
KEYS == 16
_END == 255
_KF == 1
_KX == 8
MSGERROR == 1
MSGRUN == 2
MSGHYP == 3
_HYP == 64
_LIT == 65
WSIZE == 14
RSIZE == 16
SSIZE == 12
ERRORPC == 191

mem ==
  << 62, 30, 12, 62, 62, 11, 30, 22, 46, 62, 11, 38, 44, 43, 11, 11, 11, 255, 12,
     43, 62, 62, 30, 59, 62, 28, 22, 46, 11, 30, 11, 30, 12, 11, 255, 12, 62, 62,
     28, 22, 11, 11, 11, 12, 6, 14, 59, 62, 28, 22, 12, 38, 255, 62, 62, 62, 30,
     30, 35, 36, 52, 30, 59, 12, 28, 35, 18, 30, 54, 2, 28, 22, 14, 12, 62, 30,
     59, 27, 38, 2, 34, 27, 30, 46, 14, 30, 255, 62, 28, 22, 62, 62, 62, 28, 27,
     30, 12, 28, 36, 30, 14, 54, 14, 22, 3, 28, 54, 30, 12, 3, 59, 34, 27, 30, 3,
     22, 27, 38, 22, 255, 12, 27, 38, 59, 62, 62, 30, 11, 11, 11, 54, 46, 62, 62,
     56, 22, 59, 11, 22, 11, 22, 11, 11, 11, 255, 2, 62, 14, 59, 22, 27, 38, 255,
     2, 62, 14, 22, 27, 38, 255, 62, 27, 30, 2, 62, 62, 28, 54, 12, 28, 22, 38,
     255, 62, 62, 30, 28, 22, 46, 22, 3, 255, 62, 62, 30, 28, 54, 46, 22, 3, 255,
     62, 62, 28, 22, 12, 59, 62, 28, 22, 38, 46, 3, 255 >>

rom ==
  << 0, 221, 2, 255, 2, 36, 0, 23, 1, 68, 2, 68, 0, 132, 1, 16, 2, 209, 3, 251,
     0, 95, 0, 195, 1, 168, 3, 103, 2, 238, 3, 226, 0, 46, 0, 144, 3, 234, 3,
     234, 3, 234, 0, 107, 2, 105, 0, 168, 2, 168, 0, 255, 3, 234, 3, 234, 3, 234,
     0, 48, 0, 204, 0, 170, 1, 168, 0, 67, 1, 211, 0, 204, 0, 48, 0, 0, 0, 131,
     1, 68, 0, 68, 0, 187, 2, 68, 0, 159, 2, 132, 3, 11, 0, 46, 0, 144, 3, 40, 3,
     111, 3, 234, 3, 234, 3, 234, 0, 75, 2, 103, 3, 168, 1, 113, 3, 119, 3, 203,
     2, 206, 0, 196, 1, 219, 1, 40, 0, 52, 2, 206, 3, 117, 1, 46, 2, 250, 1, 22,
     3, 106, 3, 131, 1, 186, 3, 155, 3, 54, 3, 76, 3, 155, 0, 28, 1, 234, 0, 2,
     1, 51, 2, 196, 2, 214, 3, 166, 1, 20, 2, 31, 1, 125, 3, 119, 0, 210, 1, 114,
     0, 218, 3, 138, 1, 119, 0, 206, 0, 52, 1, 142, 3, 12, 1, 42, 1, 138, 1, 186,
     1, 163, 0, 170, 1, 122, 1, 95, 1, 76, 3, 170, 1, 20, 1, 11, 3, 42, 0, 42, 3,
     221, 1, 10, 2, 206, 3, 44, 2, 39, 3, 178, 1, 235, 2, 209, 0, 144, 1, 20, 3,
     219, 3, 178, 0, 250, 1, 142, 1, 186, 1, 255, 0, 218, 0, 170, 3, 76, 1, 22,
     1, 106, 2, 126, 1, 59, 2, 118, 2, 3, 0, 202, 3, 221, 2, 214, 1, 158, 3, 44,
     2, 79, 0, 142, 1, 238, 0, 76, 1, 18, 0, 60, 1, 162, 2, 63, 3, 174, 0, 236,
     3, 231, 0, 202, 1, 132, 1, 235, 0, 254, 1, 168, 0, 46, 3, 250, 3, 250, 1,
     250, 1, 250, 0, 74, 2, 143, 3, 174, 3, 166, 1, 166, 2, 159, 3, 174, 2, 38,
     0, 74, 2, 251, 2, 142, 3, 234, 0, 14, 2, 251, 2, 163, 2, 246, 0, 212, 2,
     211, 3, 126, 0, 254, 1, 212, 2, 223, 1, 40, 1, 196, 0, 206, 1, 110, 0, 190,
     1, 254, 2, 46, 0, 48, 0, 144, 1, 113, 1, 68, 3, 119, 2, 206, 1, 158, 2, 36,
     3, 63, 1, 250, 2, 4, 1, 84, 3, 55, 1, 234, 3, 27, 0, 40, 0, 20, 3, 31, 0,
     36, 0, 28, 3, 44, 3, 67, 2, 40, 2, 20, 3, 51, 1, 14, 1, 100, 0, 208, 1, 40,
     3, 174, 1, 117, 1, 196, 3, 221, 2, 189, 2, 43, 2, 214, 0, 28, 0, 172, 1, 23,
     3, 12, 2, 238, 2, 246, 3, 226, 3, 226, 0, 140, 0, 60, 3, 98, 3, 191, 0, 2,
     3, 171, 3, 226, 3, 46, 0, 48, 1, 4, 2, 212, 0, 115, 1, 191, 0, 254, 2, 164,
     3, 15, 1, 148, 3, 243, 0, 28, 2, 146, 1, 233, 2, 168, 3, 111, 3, 207, 3, 46,
     0, 161, 1, 168, 0, 161, 1, 168, 2, 84, 0, 39, 3, 174, 1, 84, 0, 75, 0, 222,
     2, 153, 1, 40, 2, 149, 2, 97, 0, 149, 1, 168, 2, 153, 2, 148, 3, 107, 2,
     238, 3, 226, 1, 38, 3, 166, 1, 106, 2, 146, 1, 186, 0, 103, 2, 210, 1, 234,
     0, 119, 2, 206, 2, 142, 1, 40, 2, 46, 1, 7, 2, 46, 1, 12, 3, 123, 1, 40, 3,
     174, 1, 162, 0, 183, 0, 174, 1, 142, 0, 138, 3, 47, 1, 142, 0, 84, 0, 151,
     2, 148, 1, 183, 1, 84, 0, 87, 0, 254, 3, 190, 0, 55, 2, 146, 3, 126, 0, 235,
     1, 254, 3, 50, 1, 210, 3, 46, 1, 46, 3, 82, 0, 239, 1, 168, 2, 206, 3, 178,
     3, 46, 1, 18, 1, 40, 3, 254, 3, 254, 0, 143, 0, 206, 0, 42, 2, 214, 2, 201,
     1, 98, 1, 168, 3, 174, 1, 12, 2, 145, 1, 140, 2, 109, 2, 12, 2, 109, 0, 140,
     2, 24, 2, 140, 2, 109, 2, 57, 2, 109, 3, 49, 1, 14, 2, 109, 0, 142, 3, 45,
     3, 49, 2, 174, 2, 153, 2, 84, 1, 179, 0, 254, 2, 97, 0, 100, 0, 206, 1, 98,
     1, 234, 0, 84, 2, 151, 2, 153, 3, 49, 2, 174, 2, 149, 3, 49, 2, 174, 2, 174,
     2, 85, 2, 174, 3, 173, 3, 49, 2, 140, 2, 113, 2, 57, 2, 12, 2, 117, 0, 140,
     2, 24, 1, 140, 2, 113, 1, 12, 2, 113, 2, 113, 3, 46, 2, 78, 3, 76, 1, 88, 3,
     239, 1, 140, 2, 24, 1, 152, 1, 88, 0, 152, 1, 24, 2, 88, 0, 84, 3, 107, 0,
     48, 2, 238, 3, 226, 0, 16, 1, 16, 1, 14, 2, 150, 2, 46, 2, 135, 1, 254, 3,
     14, 2, 131, 3, 142, 1, 16, 1, 16, 1, 74, 1, 16, 1, 226, 3, 78, 2, 163, 3,
     206, 1, 14, 0, 28, 2, 82, 0, 44, 2, 167, 0, 183, 1, 226, 3, 22, 2, 203, 3,
     150, 1, 22, 0, 28, 0, 44, 2, 207, 0, 183, 0, 28, 3, 150, 3, 111, 0, 16, 1,
     122, 1, 122, 2, 234, 3, 94, 2, 126, 3, 27, 1, 16, 2, 6, 3, 43, 0, 254, 3,
     46, 3, 14, 1, 16, 0, 206, 2, 204, 1, 216, 2, 24, 1, 88, 0, 216, 2, 88, 2,
     24, 0, 88, 1, 152, 0, 216, 1, 88, 3, 12, 0, 48, 0, 16, 3, 138, 3, 123, 1,
     98, 1, 254, 0, 44, 2, 239, 3, 170, 2, 234, 0, 98, 3, 155, 2, 206, 2, 78, 2,
     42, 0, 202, 3, 12, 2, 187, 1, 16, 2, 146, 2, 146, 1, 126, 3, 179, 1, 210, 3,
     18, 2, 50, 0, 142, 3, 126, 3, 187, 3, 178, 1, 168, 0, 30, 0, 7, 1, 14, 3,
     178, 1, 40, 2, 146, 1, 126, 2, 62, 0, 16, 3, 62, 3, 254, 2, 86, 1, 18, 0,
     75, 1, 168, 2, 153, 1, 142, 2, 20, 1, 11, 2, 238, 3, 70, 0, 3, 2, 206, 1,
     126, 0, 3, 1, 254, 1, 46, 2, 89, 3, 98, 0, 71, 3, 50, 3, 158, 0, 7, 1, 204,
     1, 181, 2, 12, 2, 117, 2, 76, 2, 113, 3, 249, 2, 140, 2, 113, 1, 245, 2,
     204, 2, 113, 3, 125, 2, 113, 2, 229, 2, 113, 3, 217, 3, 174, 1, 78, 0, 26,
     0, 191, 1, 78, 3, 46, 0, 28, 1, 14, 0, 108, 0, 195, 3, 174, 1, 190, 0, 227,
     0, 230, 1, 234, 2, 204, 3, 21, 2, 84, 0, 27, 1, 84, 2, 83, 3, 217, 2, 157,
     2, 83, 3, 217, 3, 177, 2, 229, 2, 204, 2, 109, 3, 125, 2, 140, 2, 109, 1,
     245, 2, 76, 2, 109, 3, 249, 2, 12, 2, 109, 2, 109, 2, 109, 1, 140, 2, 242,
     3, 76, 2, 46, 3, 174, 1, 152, 2, 59, 0, 148, 1, 123, 3, 234, 2, 122, 3, 11,
     3, 22, 1, 103, 3, 150, 1, 14, 1, 106, 1, 115, 2, 206, 0, 210, 3, 170, 1,
     190, 1, 179, 3, 46, 3, 14, 0, 238, 2, 206, 2, 46, 0, 206, 1, 102, 0, 148, 1,
     219, 1, 24, 1, 230, 1, 231, 1, 152, 0, 108, 1, 215, 2, 78, 2, 78, 0, 148, 2,
     83, 0, 48, 1, 204, 0, 216, 0, 216, 0, 24, 2, 24, 1, 88, 0, 24, 2, 88, 3,
     171, 2, 89, 3, 226, 1, 46, 1, 126, 2, 27, 2, 210, 3, 174, 1, 22, 3, 174, 3,
     126, 2, 35, 3, 46, 3, 226, 3, 49, 0, 144, 2, 210, 3, 126, 2, 87, 2, 254, 3,
     142, 0, 48, 0, 144, 2, 206, 2, 46, 2, 131, 3, 142, 1, 126, 2, 127, 3, 174,
     1, 22, 3, 174, 1, 183, 0, 204, 1, 202, 1, 94, 2, 175, 0, 190, 3, 38, 2, 238,
     3, 44, 3, 23, 0, 102, 2, 219, 0, 84, 0, 3, 0, 146, 3, 102, 1, 250, 2, 50, 3,
     166, 0, 144, 2, 36, 1, 152, 2, 88, 0, 216, 0, 88, 1, 24, 1, 216, 0, 88, 3,
     155, 3, 230, 1, 147, 3, 142, 1, 98, 3, 19, 2, 206, 0, 60, 3, 108, 3, 23, 1,
     234, 2, 254, 3, 12, 0, 46, 2, 98, 3, 91, 1, 14, 1, 106, 2, 110, 3, 63, 0,
     206, 1, 42, 3, 142, 2, 126, 3, 31, 3, 166, 1, 142, 0, 46, 3, 12, 1, 235, 2,
     76, 0, 216, 0, 88, 0, 24, 0, 88, 1, 216, 2, 88, 2, 24, 0, 24, 1, 88, 1, 88,
     0, 216, 3, 119, 3, 174, 1, 46, 1, 134, 2, 186, 1, 123, 1, 250, 2, 206, 1,
     234, 3, 203, 1, 159, 0, 206, 3, 12, 0, 152, 0, 216, 0, 24, 0, 152, 1, 88, 2,
     7, 1, 76, 1, 251 >>

k2c ==
  << 255, 28, 52, 27, 51, 26, 50, 56, 58, 36, 20, 35, 19, 62, 18, 59, 255, 2, 14,
     3, 46, 54, 38, 0, 12, 10, 6, 8, 4, 22, 30, 11, 255, 40, 43, 70, 66, 71, 67,
     65, 255, 44, 42, 64, 68, 34, 69, 255, 255, 74, 72, 77, 75, 255, 255, 255,
     255, 255, 73, 255, 76, 255, 255, 255 >>

c2m ==
  << 0, 18, 35, 53, 87, 120, 145, 153, 160, 173, 182, 191 >>

(***************************************************************************)
(* Seven-segment tables used by printscreen                                *)
(***************************************************************************)
_7MINUS == 64
_7DOT == 128
_7HIGHLINE == 1
_7LOWLINE == 8
DIGITS == 8

\* a glyph table that stops short of the glyph of 9
digitNoNine == << 63, 6, 91, 79, 102, 109, 125, 7, 127 >>

digit == << 63, 6, 91, 79, 102, 109, 125, 7, 127, 111 >>

msg ==
  << 0, 121, 80, 80, 92, 80, 0, 0,
     0, 80, 28, 84, 0, 0, 0, 0,
     0, 118, 110, 115, 128, 83, 0, 0 >>

(***************************************************************************)
(* Bit fields of a fetched microinstruction (fetch_h, fetch_l)             *)
(***************************************************************************)
AndEF(l) == l - 16 * ((l \div 16) % 2)

l3f(l) == l % 64

h3(h) == h % 4

\* a bit field read one too high
bitselNext(h, l) == (h % 4) * 4 + (l \div 64) + 1

bitsel(h, l) == (h % 4) * 4 + (l \div 64)

call_target(h, l) == ((l \div 4) % 64) + (h % 4) * 64

branch_target(h, l) == (l \div 4) + (h % 4) * 64

\* a bank field read one too high
bank_targetNext(h, l) == (h % 4) * 2 + ((l \div 128) % 2) + 1

bank_target(h, l) == (h % 4) * 2 + ((l \div 128) % 2)

const_nibble(h, l) == ((l \div 64) + 4 * h) % 256

op_code(h, l) == ((l \div 32) % 8) + (h % 4) * 8

slice_code(l) == (l \div 4) % 8

(***************************************************************************)
(* Registers are byte arrays of RSIZE entries, of which the engine moves   *)
(* WSIZE; the status array has SSIZE entries.                              *)
(***************************************************************************)
RegIdx == 0 .. (RSIZE - 1)

ZeroReg == [i \in RegIdx |-> 0]

OnesStatus == [i \in 0 .. (SSIZE - 1) |-> 1]

ZeroStatus == [i \in 0 .. (SSIZE - 1) |-> 0]

ZeroBuf == [i \in 0 .. (DIGITS - 1) |-> 0]

memcpy(dst, src) == [i \in RegIdx |-> IF i < WSIZE THEN src[i] ELSE dst[i]]

\* a fill that runs one nibble past the slice
FillPastLast(r, fi, la, v) ==
  [i \in RegIdx |-> IF fi <= i /\ i <= la + 1 THEN v ELSE r[i]]

Fill(r, fi, la, v) == [i \in RegIdx |-> IF fi <= i /\ i <= la THEN v ELSE r[i]]

CopySlice(dst, src, fi, la) ==
  [i \in RegIdx |-> IF fi <= i /\ i <= la THEN src[i] ELSE dst[i]]

ShiftLeft(r, fi, la) ==
  [i \in RegIdx |-> IF i = fi THEN 0
                    ELSE IF fi < i /\ i <= la THEN r[i - 1] ELSE r[i]]

ShiftRight(r, fi, la) ==
  [i \in RegIdx |-> IF i = la THEN 0
                    ELSE IF fi <= i /\ i < la THEN r[i + 1] ELSE r[i]]

\* a scan that skips the first nibble of the slice
AnyNonZeroAfterFirst(r, fi, la) == \E i \in (fi + 1) .. la : r[i] # 0

AnyNonZero(r, fi, la) == \E i \in fi .. la : r[i] # 0

(***************************************************************************)
(* BCD ALU: do_add and do_sub on one digit, with the carry they consume    *)
(* and produce; the result is returned as a byte.                          *)
(***************************************************************************)
\* a digit adder that ignores the carry coming in
do_addNoCarryIn(x, y, cy) ==
  LET res == x + y
  IN  IF res > 9 THEN [v |-> (res - 10) % 256, cy |-> 1]
                 ELSE [v |-> res % 256, cy |-> 0]

do_add(x, y, cy) ==
  LET res == x + y + cy
  IN  IF res > 9 THEN [v |-> (res - 10) % 256, cy |-> 1]
                 ELSE [v |-> res % 256, cy |-> 0]

\* a digit subtractor that does not add 10 back on a borrow
do_subNoWrap(x, y, cy) ==
  LET res == x - y - cy
  IN  IF res < 0 THEN [v |-> res % 256, cy |-> 1]
                 ELSE [v |-> res % 256, cy |-> 0]

do_sub(x, y, cy) ==
  LET res == x - y - cy
  IN  IF res < 0 THEN [v |-> (res + 10) % 256, cy |-> 1]
                 ELSE [v |-> res % 256, cy |-> 0]

RECURSIVE AddLoop(_, _, _, _, _, _)
AddLoop(x, y, dst, i, la, cy) ==
  IF i > la THEN [r |-> dst, cy |-> cy]
  ELSE LET dg == do_add(x[i], y[i], cy)
       IN  AddLoop(x, y, [dst EXCEPT ![i] = dg.v], i + 1, la, dg.cy)

RECURSIVE SubLoop(_, _, _, _, _, _)
SubLoop(x, y, dst, i, la, cy) ==
  IF i > la THEN [r |-> dst, cy |-> cy]
  ELSE LET dg == do_sub(x[i], y[i], cy)
       IN  SubLoop(x, y, [dst EXCEPT ![i] = dg.v], i + 1, la, dg.cy)

(***************************************************************************)
(* Reads and writes outside an array are undefined behaviour.  A read      *)
(* yields some byte; a write to s[12..15] lands on nothing the model       *)
(* tracks or on one of the bytes declared next to s.  The choice is the    *)
(* parameter u = [rd |-> byte read, victim |-> byte written].              *)
(***************************************************************************)
GarbageBytes == {0, 204, 255}

Victims == {"none", "p", "pc", "ret", "offset"}

UBChoices == [rd : GarbageBytes, victim : Victims]

NoUB == [rd |-> 0, victim |-> "none"]

StatusRead(q, i, u) == IF i < SSIZE THEN q.s[i] ELSE u.rd

StatusWrite(q, i, v, u) ==
  IF i < SSIZE THEN [q EXCEPT !.s = [q.s EXCEPT ![i] = v]]
  ELSE CASE u.victim = "p" -> [q EXCEPT !.p = v, !.ub = TRUE]
         [] u.victim = "pc" -> [q EXCEPT !.pc = v, !.ub = TRUE]
         [] u.victim = "ret" -> [q EXCEPT !.ret = v, !.ub = TRUE]
         [] u.victim = "offset" -> [q EXCEPT !.offset = v, !.ub = TRUE]
         [] OTHER -> [q EXCEPT !.ub = TRUE]

DigitRead(x, u) == IF x < Len(digit) THEN digit[x + 1] ELSE u.rd

(***************************************************************************)
(* process_rom: the decoding rules, one predicate per `if` of the source   *)
(***************************************************************************)
IsCall(h, l) == l % 4 = 1

IsReturn(h, l) == l % 128 = 48

IsRomSelect(h, l) == l % 128 = 16

IsJumpKey(h, l) == l = 208

IsStatusTest(h, l) == l3f(l) = 20

IsStatusSet(h, l) == l3f(l) = 4

IsStatusClear(h, l) == l3f(l) = 36

IsStatusClearAll(h, l) == l3f(l) = 52

IsPointerTest(h, l) == l3f(l) = 44

IsPointerSet(h, l) == l3f(l) = 12

IsPointerInc(h, l) == l3f(l) = 60

IsPointerDec(h, l) == l3f(l) = 28

IsLoadConst(h, l) == l3f(l) = 24

IsSwapCM(h, l) == h3(h) = 0 /\ AndEF(l) = 168

IsPush(h, l) == h3(h) = 1 /\ AndEF(l) = 40

IsPop(h, l) == h3(h) = 1 /\ AndEF(l) = 168

IsMtoC(h, l) == h3(h) = 2 /\ AndEF(l) = 168

IsRotate(h, l) == h3(h) = 3 /\ AndEF(l) = 40

IsClearRegs(h, l) == h3(h) = 3 /\ AndEF(l) = 168

IsDisplayOff(h, l) == h3(h) = 0 /\ AndEF(l) = 40

\* a toggle rule that does not look at h
IsDisplayToggleAnyH(h, l) == AndEF(l) = 40

IsDisplayToggle(h, l) == h3(h) = 2 /\ AndEF(l) = 40

IsBranch(h, l) == l % 4 = 3

IsArith(h, l) == l % 4 = 2

(***************************************************************************)
(* process_rom, stage by stage.  q is the record of all program variables  *)
(***************************************************************************)
ErrorCheck(q) ==
  IF q.pc = ERRORPC /\ q.offset = 0 THEN [q EXCEPT !.msgnr = MSGERROR] ELSE q

\* a fetch that keeps the carry of the cycle before
FetchAdvanceKeepsCarry(q) ==
  [q EXCEPT !.prevCarry = q.carry, !.pc = (q.pc + 1) % 256]

FetchAdvance(q) ==
  [q EXCEPT !.prevCarry = q.carry, !.carry = 0, !.pc = (q.pc + 1) % 256]

\* a latch stage that copies the code but leaves the latch full
KeyLatchKeepsCode(q) ==
  IF q.key_code < _END
  THEN [q EXCEPT !.key_rom = q.key_code,
                 !.s = [q.s EXCEPT ![0] = 1], !.pending = TRUE]
  ELSE q

KeyLatch(q) ==
  IF q.key_code < _END
  THEN [q EXCEPT !.key_rom = q.key_code, !.key_code = _END,
                 !.s = [q.s EXCEPT ![0] = 1], !.pending = TRUE]
  ELSE q

\* a call that stores its own address instead of the following one
JumpSubOwnAddress(q, h, l) ==
  IF IsCall(h, l)
  THEN [q EXCEPT !.ret = (q.pc + 255) % 256, !.pc = call_target(h, l)]
  ELSE q

JumpSub(q, h, l) ==
  IF IsCall(h, l) THEN [q EXCEPT !.ret = q.pc, !.pc = call_target(h, l)] ELSE q

Return(q, h, l) == IF IsReturn(h, l) THEN [q EXCEPT !.pc = q.ret] ELSE q

RomSelect(q, h, l) ==
  IF IsRomSelect(h, l) THEN [q EXCEPT !.offset = bank_target(h, l)] ELSE q

JumpKey(q, h, l) ==
  IF IsJumpKey(h, l)
  THEN [q EXCEPT !.pc = q.key_rom, !.s = [q.s EXCEPT ![0] = 0],
                 !.pending = FALSE]
  ELSE q

StatusTest(q, h, l, u) ==
  IF IsStatusTest(h, l)
  THEN [q EXCEPT !.carry = StatusRead(q, bitsel(h, l), u),
                 !.ub = q.ub \/ bitsel(h, l) >= SSIZE]
  ELSE q

StatusSet(q, h, l, u) ==
  IF IsStatusSet(h, l) THEN StatusWrite(q, bitsel(h, l), 1, u) ELSE q

StatusClear(q, h, l, u) ==
  IF IsStatusClear(h, l) THEN StatusWrite(q, bitsel(h, l), 0, u) ELSE q

\* a clear-all that raises every status bit
StatusSetAll(q, h, l) ==
  IF IsStatusClearAll(h, l) THEN [q EXCEPT !.s = OnesStatus] ELSE q

StatusClearAll(q, h, l) ==
  IF IsStatusClearAll(h, l) THEN [q EXCEPT !.s = ZeroStatus] ELSE q

PointerTest(q, h, l) ==
  IF IsPointerTest(h, l)
  THEN [q EXCEPT !.carry = IF q.p = bitsel(h, l) THEN 1 ELSE 0]
  ELSE q

PointerSet(q, h, l) ==
  IF IsPointerSet(h, l) THEN [q EXCEPT !.p = bitsel(h, l)] ELSE q

PointerInc(q, h, l) ==
  IF IsPointerInc(h, l) THEN [q EXCEPT !.p = (q.p + 1) % 16] ELSE q

PointerDec(q, h, l) ==
  IF IsPointerDec(h, l) THEN [q EXCEPT !.p = (q.p - 1) % 16] ELSE q

LoadConst(q, h, l) ==
  IF IsLoadConst(h, l)
  THEN [q EXCEPT !.c = [q.c EXCEPT ![q.p] = const_nibble(h, l)],
                 !.p = (q.p - 1) % 16]
  ELSE q

SwapCM(q, h, l) ==
  IF IsSwapCM(h, l)
  THEN [q EXCEPT !.c = memcpy(q.c, q.m), !.m = memcpy(q.m, q.c)]
  ELSE q

Push(q, h, l) ==
  IF IsPush(h, l)
  THEN [q EXCEPT !.f = memcpy(q.f, q.e), !.e = memcpy(q.e, q.d),
                 !.d = memcpy(q.d, q.c)]
  ELSE q

\* a pop that does not move f down to e
PopKeepsE(q, h, l) ==
  IF IsPop(h, l)
  THEN [q EXCEPT !.a = memcpy(q.a, q.d), !.d = memcpy(q.d, q.e)]
  ELSE q

Pop(q, h, l) ==
  IF IsPop(h, l)
  THEN [q EXCEPT !.a = memcpy(q.a, q.d), !.d = memcpy(q.d, q.e),
                 !.e = memcpy(q.e, q.f)]
  ELSE q

MtoC(q, h, l) == IF IsMtoC(h, l) THEN [q EXCEPT !.c = memcpy(q.c, q.m)] ELSE q

\* a rotation in the other direction
RotateUp(q, h, l) ==
  IF IsRotate(h, l)
  THEN [q EXCEPT !.d = memcpy(q.d, q.c), !.e = memcpy(q.e, q.d),
                 !.f = memcpy(q.f, q.e), !.c = memcpy(q.c, q.f)]
  ELSE q

Rotate(q, h, l) ==
  IF IsRotate(h, l)
  THEN [q EXCEPT !.c = memcpy(q.c, q.d), !.d = memcpy(q.d, q.e),
                 !.e = memcpy(q.e, q.f), !.f = memcpy(q.f, q.c)]
  ELSE q

ClearRegs(q, h, l) ==
  IF IsClearRegs(h, l)
  THEN [q EXCEPT !.a = memcpy(q.a, ZeroReg), !.b = memcpy(q.b, ZeroReg),
                 !.c = memcpy(q.c, ZeroReg), !.d = memcpy(q.d, ZeroReg),
                 !.e = memcpy(q.e, ZeroReg), !.f = memcpy(q.f, ZeroReg),
                 !.m = memcpy(q.m, ZeroReg)]
  ELSE q

DisplayOff(q, h, l) ==
  IF IsDisplayOff(h, l)
  THEN [q EXCEPT !.display_enable = FALSE, !.display_update = FALSE]
  ELSE q

DisplayToggle(q, h, l) ==
  IF IsDisplayToggle(h, l)
  THEN [q EXCEPT !.display_enable = ~q.display_enable]
  ELSE q

\* a branch that tests the carry of its own cycle
CondBranchOnCarry(q, h, l) ==
  IF IsBranch(h, l) /\ q.carry # 1
  THEN [q EXCEPT !.pc = branch_target(h, l)]
  ELSE q

CondBranch(q, h, l) ==
  IF IsBranch(h, l) /\ q.prevCarry # 1
  THEN [q EXCEPT !.pc = branch_target(h, l)]
  ELSE q

(***************************************************************************)
(* Arithmetic family: register boundaries, then the opcode switch          *)
(***************************************************************************)
slice_first(sc, p) ==
  CASE sc = 0 -> p
    [] sc = 1 -> 3
    [] sc = 2 -> 0
    [] sc = 3 -> 0
    [] sc = 4 -> 0
    [] sc = 5 -> 3
    [] sc = 6 -> 2
    [] OTHER -> 13

slice_last(sc, p) ==
  CASE sc = 0 -> p
    [] sc = 1 -> 12
    [] sc = 2 -> 2
    [] sc = 3 -> 13
    [] sc = 4 -> p
    [] sc = 5 -> 13
    [] sc = 6 -> 2
    [] OTHER -> 13

ArithOp(q, op, fi, la) ==
  LET subAC(cy) == SubLoop(q.a, q.c, q.c, fi, la, cy)
      sub0C(cy) == SubLoop(ZeroReg, q.c, q.c, fi, la, cy)
      subC0(cy) == SubLoop(q.c, ZeroReg, q.c, fi, la, cy)
      subAB(cy) == SubLoop(q.a, q.b, q.a, fi, la, cy)
      subACa(cy) == SubLoop(q.a, q.c, q.a, fi, la, cy)
      subA0(cy) == SubLoop(q.a, ZeroReg, q.a, fi, la, cy)
      tAC == SubLoop(q.a, q.c, q.t, fi, la, 0)
      tAB == SubLoop(q.a, q.b, q.t, fi, la, 0)
      addAC(cy) == AddLoop(q.a, q.c, q.c, fi, la, cy)
      addC0(cy) == AddLoop(q.c, ZeroReg, q.c, fi, la, cy)
      addCC(cy) == AddLoop(q.c, q.c, q.c, fi, la, cy)
      addAB(cy) == AddLoop(q.a, q.b, q.a, fi, la, cy)
      addACa(cy) == AddLoop(q.a, q.c, q.a, fi, la, cy)
      addA0(cy) == AddLoop(q.a, ZeroReg, q.a, fi, la, cy)
      setC(x) == [q EXCEPT !.c = x.r, !.carry = x.cy]
      setA(x) == [q EXCEPT !.a = x.r, !.carry = x.cy]
      setT(x) == [q EXCEPT !.t = x.r, !.carry = x.cy]
  IN  CASE op = 0 -> [q EXCEPT !.carry = IF AnyNonZero(q.b, fi, la) THEN 1 ELSE 0]
        [] op = 1 -> [q EXCEPT !.b = Fill(q.b, fi, la, 0)]
        [] op = 2 -> setT(tAC)
        [] op = 3 -> [q EXCEPT !.carry = IF AnyNonZero(q.c, fi, la) THEN 0 ELSE 1]
        [] op = 4 -> [q EXCEPT !.c = CopySlice(q.c, q.b, fi, la)]
        [] op = 5 -> setC(sub0C(0))
        [] op = 6 -> [q EXCEPT !.c = Fill(q.c, fi, la, 0)]
        [] op = 7 -> setC(sub0C(1))
        [] op = 8 -> [q EXCEPT !.a = ShiftLeft(q.a, fi, la)]
        [] op = 9 -> [q EXCEPT !.b = CopySlice(q.b, q.a, fi, la)]
        [] op = 10 -> setC(subAC(0))
        [] op = 11 -> setC(subC0(1))
        [] op = 12 -> [q EXCEPT !.a = CopySlice(q.a, q.c, fi, la)]
        [] op = 13 -> [q EXCEPT !.carry = IF AnyNonZero(q.c, fi, la) THEN 1 ELSE 0]
        [] op = 14 -> setC(addAC(0))
        [] op = 15 -> setC(addC0(1))
        [] op = 16 -> setT(tAB)
        [] op = 17 -> [q EXCEPT !.b = CopySlice(q.b, q.c, fi, la),
                                !.c = CopySlice(q.c, q.b, fi, la)]
        [] op = 18 -> [q EXCEPT !.c = ShiftRight(q.c, fi, la)]
        [] op = 19 -> [q EXCEPT !.carry = IF AnyNonZero(q.a, fi, la) THEN 0 ELSE 1]
        [] op = 20 -> [q EXCEPT !.b = ShiftRight(q.b, fi, la)]
        [] op = 21 -> setC(addCC(0))
        [] op = 22 -> [q EXCEPT !.a = ShiftRight(q.a, fi, la)]
        [] op = 23 -> [q EXCEPT !.a = Fill(q.a, fi, la, 0)]
        [] op = 24 -> setA(subAB(0))
        [] op = 25 -> [q EXCEPT !.a = CopySlice(q.a, q.b, fi, la),
                                !.b = CopySlice(q.b, q.a, fi, la)]
        [] op = 26 -> setA(subACa(0))
        [] op = 27 -> setA(subA0(1))
        [] op = 28 -> setA(addAB(0))
        [] op = 29 -> [q EXCEPT !.a = CopySlice(q.a, q.c, fi, la),
                                !.c = CopySlice(q.c, q.a, fi, la)]
        [] op = 30 -> setA(addACa(0))
        [] OTHER -> setA(addA0(1))

Arith(q, h, l) ==
  IF IsArith(h, l)
  THEN LET fi == slice_first(slice_code(l), q.p)
           la == slice_last(slice_code(l), q.p)
       IN  ArithOp([q EXCEPT !.first = fi, !.last = la, !.carry = 0],
                   op_code(h, l), fi, la)
  ELSE q

(***************************************************************************)
(* printscreen and the display stage at the end of process_rom             *)
(***************************************************************************)
message(n) == [i \in 0 .. (DIGITS - 1) |-> msg[DIGITS * (n - 1) + i + 1]]

\* a mantissa cell that never lights the decimal point
StackCellNoDot(q, i, u) ==
  IF q.b[i] >= 8 THEN 0
  ELSE IF i = 13 THEN (IF q.a[i] >= 8 THEN _7MINUS ELSE 0)
  ELSE DigitRead(q.a[i], u)

StackCell(q, i, u) ==
  LET base == IF q.b[i] >= 8 THEN 0
              ELSE IF i = 13 THEN (IF q.a[i] >= 8 THEN _7MINUS ELSE 0)
              ELSE DigitRead(q.a[i], u)
  IN  IF q.b[i] = 2 /\ base < _7DOT THEN base + _7DOT ELSE base

StackBuf(q, u) ==
  [pos \in 0 .. (DIGITS - 1) |->
     IF pos >= 5 /\ q.b[0] < 8 /\ q.b[1] < 8 /\ q.b[2] < 8
     THEN CASE pos = 5 -> (IF q.a[2] < 8 THEN 0 ELSE _7MINUS)
            [] pos = 6 -> DigitRead(q.a[1], u)
            [] OTHER -> DigitRead(q.a[0], u)
     ELSE StackCell(q, 13 - pos, u)]

printbuf(q, buf) ==
  IF q.fg = 1 THEN [buf EXCEPT ![0] = _7HIGHLINE]
  ELSE IF q.fg = 2 THEN [buf EXCEPT ![0] = _7LOWLINE]
  ELSE buf

printscreen(q, u) ==
  LET buf == IF q.msgnr # 0 THEN message(q.msgnr)
             ELSE IF q.darkscreen THEN ZeroBuf
             ELSE StackBuf(q, u)
  IN  [q EXCEPT !.dbuf = printbuf(q, buf), !.display_update = FALSE]

\* a display stage that projects whenever the display is disabled
DisplayStageAlways(q, u) ==
  IF q.display_enable THEN [q EXCEPT !.display_update = TRUE, !.framed = FALSE]
  ELSE [printscreen(q, u) EXCEPT !.islock = FALSE, !.count = 0,
                                 !.framed = TRUE, !.unframed = FALSE]

DisplayStage(q, u) ==
  IF q.display_enable THEN [q EXCEPT !.display_update = TRUE, !.framed = FALSE]
  ELSE IF q.display_update
       THEN [printscreen(q, u) EXCEPT !.islock = FALSE, !.count = 0,
                                      !.framed = TRUE, !.unframed = FALSE]
       ELSE [q EXCEPT !.framed = FALSE]

(***************************************************************************)
(* process_rom on the fetched pair (h, l): the rules in source order       *)
(***************************************************************************)
Control(q, h, l, u) ==
  StatusClearAll(StatusClear(StatusSet(StatusTest(
    JumpKey(RomSelect(Return(JumpSub(q, h, l), h, l), h, l), h, l),
    h, l, u), h, l, u), h, l, u), h, l)

Pointer(q, h, l) ==
  LoadConst(PointerDec(PointerInc(PointerSet(PointerTest(q, h, l),
    h, l), h, l), h, l), h, l)

Moves(q, h, l) ==
  DisplayToggle(DisplayOff(ClearRegs(Rotate(MtoC(Pop(Push(SwapCM(q, h, l),
    h, l), h, l), h, l), h, l), h, l), h, l), h, l)

Decode(q, h, l, u) ==
  Arith(CondBranch(Moves(Pointer(Control(q, h, l, u), h, l), h, l), h, l), h, l)

Execute(q, h, l, u) ==
  Decode([KeyLatch(FetchAdvance(ErrorCheck(q))) EXCEPT !.fetch_h = h,
                                                       !.fetch_l = l],
         h, l, u)

process_rom(q, h, l, u) == DisplayStage(Execute(q, h, l, u), u)

(***************************************************************************)
(* Bounds of the model                                                     *)
(***************************************************************************)
\* physical key presses (changes of the scanned key to a key) in one run
MaxPresses == 4

\* tape positions past which the sequencer reads no further garbage byte
MaxTape == 206

\* the keys the scan may report, besides 0 (none) and the key still held:
\* F and 9 (under F F: P->R)
PressKeys == {1, 7}

\* F and EEX (under F F: no entry in k2c)
EEXKeys == {1, 9}

\* F and 5 (under F F: PV)
PVKeys == {1, 13}

HYPKeys == {1, 12}

(***************************************************************************)
(* State                                                                   *)
(***************************************************************************)
VARIABLES
  a, b, c, d, e, f, m, t,     \* registers (lines 483-490)
  s,                          \* status (491)
  p, pc, ret,                 \* pointers (492)
  offset,                     \* ROM bank (493)
  first, last,                \* register loop boundaries (494)
  carry, prevCarry,           \* carry bits (495)
  key_code, key_rom,          \* key latch and the key seen by the ROM (496)
  display_enable, display_update,   \* display control (497)
  msgnr,                      \* message number (498)
  dbuf, brightness,           \* display buffer, brightness (218-219)
  key, oldkey,                \* pressed and previous key (220)
  fg, darkscreen,             \* function key indicator, screensaver (221-222)
  memp, count, isrun, islock, \* script sequencer (224-226)
  fetch_h, fetch_l,           \* the pair fetched by the last microcycle (519)
  phase,                      \* position in loop(): "key", "rom", "seq"
  presses,                    \* key presses so far (bounded by MaxPresses)
  framed,                     \* printscreen ran in the last microcycle
  pending,                    \* a key moved to key_rom, no jump-on-key since
  armed,                      \* index into c2m of the function armed, or -1
  injected,                   \* key codes the sequencer wrote since arming
  unframed,                   \* a tape byte was read, no frame projected since
  ub                          \* an access outside an array has happened

vars ==
  << a, b, c, d, e, f, m, t, s, p, pc, ret, offset, first, last, carry,
     prevCarry, key_code, key_rom, display_enable, display_update, msgnr,
     dbuf, brightness, key, oldkey, fg, darkscreen, memp, count, isrun,
     islock, fetch_h, fetch_l, phase, presses, framed, pending, armed,
     injected, unframed, ub >>

Now ==
  [a |-> a, b |-> b, c |-> c, d |-> d, e |-> e, f |-> f, m |-> m, t |-> t,
   s |-> s, p |-> p, pc |-> pc, ret |-> ret, offset |-> offset,
   first |-> first, last |-> last, carry |-> carry, prevCarry |-> prevCarry,
   key_code |-> key_code, key_rom |-> key_rom,
   display_enable |-> display_enable, display_update |-> display_update,
   msgnr |-> msgnr, dbuf |-> dbuf, brightness |-> brightness, key |-> key,
   oldkey |-> oldkey, fg |-> fg, darkscreen |-> darkscreen, memp |-> memp,
   count |-> count, isrun |-> isrun, islock |-> islock,
   fetch_h |-> fetch_h, fetch_l |-> fetch_l, phase |-> phase,
   presses |-> presses, framed |-> framed, pending |-> pending,
   armed |-> armed, injected |-> injected, unframed |-> unframed, ub |-> ub]

Becomes(q) ==
  /\ a' = q.a /\ b' = q.b /\ c' = q.c /\ d' = q.d /\ e' = q.e /\ f' = q.f
  /\ m' = q.m /\ t' = q.t /\ s' = q.s /\ p' = q.p /\ pc' = q.pc
  /\ ret' = q.ret /\ offset' = q.offset /\ first' = q.first
  /\ last' = q.last /\ carry' = q.carry /\ prevCarry' = q.prevCarry
  /\ key_code' = q.key_code /\ key_rom' = q.key_rom
  /\ display_enable' = q.display_enable
  /\ display_update' = q.display_update /\ msgnr' = q.msgnr
  /\ dbuf' = q.dbuf /\ brightness' = q.brightness /\ key' = q.key
  /\ oldkey' = q.oldkey /\ fg' = q.fg /\ darkscreen' = q.darkscreen
  /\ memp' = q.memp /\ count' = q.count /\ isrun' = q.isrun
  /\ islock' = q.islock /\ fetch_h' = q.fetch_h /\ fetch_l' = q.fetch_l
  /\ phase' = q.phase /\ presses' = q.presses /\ framed' = q.framed
  /\ pending' = q.pending /\ armed' = q.armed /\ injected' = q.injected
  /\ unframed' = q.unframed /\ ub' = q.ub

PowerOn ==
  [a |-> ZeroReg, b |-> ZeroReg, c |-> ZeroReg, d |-> ZeroReg, e |-> ZeroReg,
   f |-> ZeroReg, m |-> ZeroReg, t |-> ZeroReg, s |-> ZeroStatus, p |-> 0,
   pc |-> 0, ret |-> 0, offset |-> 0, first |-> 0, last |-> 0, carry |-> 0,
   prevCarry |-> 0, key_code |-> _END, key_rom |-> 0,
   display_enable |-> TRUE, display_update |-> TRUE, msgnr |-> 0,
   dbuf |-> ZeroBuf, brightness |-> 2, key |-> _KX, oldkey |-> _KX,
   fg |-> 2, darkscreen |-> FALSE, memp |-> 0, count |-> 0, isrun |-> FALSE,
   islock |-> FALSE, fetch_h |-> 0, fetch_l |-> 0, phase |-> "key",
   presses |-> 0, framed |-> FALSE, pending |-> FALSE, armed |-> -1,
   injected |-> << >>, unframed |-> FALSE, ub |-> FALSE]

Starts(q) ==
  /\ a = q.a /\ b = q.b /\ c = q.c /\ d = q.d /\ e = q.e /\ f = q.f
  /\ m = q.m /\ t = q.t /\ s = q.s /\ p = q.p /\ pc = q.pc /\ ret = q.ret
  /\ offset = q.offset /\ first = q.first /\ last = q.last
  /\ carry = q.carry /\ prevCarry = q.prevCarry /\ key_code = q.key_code
  /\ key_rom = q.key_rom /\ display_enable = q.display_enable
  /\ display_update = q.display_update /\ msgnr = q.msgnr /\ dbuf = q.dbuf
  /\ brightness = q.brightness /\ key = q.key /\ oldkey = q.oldkey
  /\ fg = q.fg /\ darkscreen = q.darkscreen /\ memp = q.memp
  /\ count = q.count /\ isrun = q.isrun /\ islock = q.islock
  /\ fetch_h = q.fetch_h /\ fetch_l = q.fetch_l /\ phase = q.phase
  /\ presses = q.presses /\ framed = q.framed /\ pending = q.pending
  /\ armed = q.armed /\ injected = q.injected /\ unframed = q.unframed
  /\ ub = q.ub

Init == Starts(PowerOn)

(***************************************************************************)
(* loop(), lines 741-765: execute the key                                  *)
(***************************************************************************)
c2mRead(i, g) == IF i < Len(c2m) THEN c2m[i + 1] ELSE g

\* a key press that switches the display on but does not break the script
KeepsRunning(q) ==
  [q EXCEPT !.display_update = TRUE, !.msgnr = 0, !.darkscreen = FALSE]

Break(q) ==
  [q EXCEPT !.display_update = TRUE, !.msgnr = 0, !.darkscreen = FALSE,
            !.isrun = FALSE, !.armed = -1, !.injected = << >>]

\* an F key that counts on without wrapping
FKeyNoWrap(q) == [q EXCEPT !.fg = q.fg + 1]

FKey(q) ==
  IF q.fg + 1 > 2
  THEN [q EXCEPT !.darkscreen = TRUE, !.fg = 0]
  ELSE [q EXCEPT !.fg = q.fg + 1]

ExecuteKey(q, g) ==
  IF q.key # 0 /\ q.key < _END
  THEN LET q1 == Break(q)
       IN  IF q.key = _KF
           THEN FKey(q1)
           ELSE LET kc == k2c[q.fg * KEYS + q.key - 1 + 1]
                    q2 == [q1 EXCEPT !.key_code = kc, !.fg = 0]
                IN  IF kc = _HYP
                    THEN [q2 EXCEPT !.fg = 3, !.msgnr = MSGHYP]
                    ELSE IF kc = _LIT
                    THEN [q2 EXCEPT !.brightness = (q.brightness + 1) % 256,
                                    !.key_code = _END]
                    ELSE IF kc > _LIT
                    THEN [q2 EXCEPT !.memp = c2mRead(kc - _LIT - 1, g),
                                    !.isrun = TRUE, !.msgnr = MSGRUN,
                                    !.armed = kc - _LIT - 1,
                                    !.ub = q.ub \/ kc - _LIT - 1 >= Len(c2m)]
                    ELSE q2
  ELSE q

KeyGarbage(q) ==
  IF /\ q.key # 0 /\ q.key < _END /\ q.key # _KF
     /\ k2c[q.fg * KEYS + q.key - 1 + 1] = _END
  THEN GarbageBytes
  ELSE {0}

KeyStep ==
  /\ phase = "key"
  /\ \E g \in KeyGarbage(Now) :
       Becomes([ExecuteKey(Now, g) EXCEPT !.phase = "rom"])

(***************************************************************************)
(* loop(), line 767: one microcycle on the pair fetched from rom[]         *)
(***************************************************************************)
RomIndex(q) == q.offset * 256 * 2 + q.pc * 2

Fetched(q) ==
  IF RomIndex(q) + 1 < Len(rom)
  THEN {<< rom[RomIndex(q) + 1], rom[RomIndex(q) + 2] >>}
  ELSE GarbageBytes \X GarbageBytes

StatusUB(h, l) ==
  IF /\ IsStatusTest(h, l) \/ IsStatusSet(h, l) \/ IsStatusClear(h, l)
     /\ bitsel(h, l) >= SSIZE
  THEN UBChoices
  ELSE {NoUB}

\* the nibbles of a that the stack branch of printscreen looks up in digit[]
Rendered(q) ==
  {i \in 6 .. (WSIZE - 2) : q.b[i] < 8}
    \cup (IF q.b[0] < 8 /\ q.b[1] < 8 /\ q.b[2] < 8 THEN {0, 1} ELSE {})

DigitUB(q) ==
  IF /\ ~q.display_enable /\ q.display_update /\ q.msgnr = 0 /\ ~q.darkscreen
     /\ \E i \in Rendered(q) : q.a[i] >= Len(digit)
  THEN {[rd |-> r, victim |-> "none"] : r \in GarbageBytes}
  ELSE {NoUB}

Microcycle(h, l) ==
  \E us \in StatusUB(h, l) :
    LET x == Execute(Now, h, l, us)
    IN  \E ud \in DigitUB(x) :
          Becomes([DisplayStage(x, ud) EXCEPT !.phase = "seq"])

RomStep ==
  /\ phase = "rom"
  /\ \E hl \in Fetched(Now) : Microcycle(hl[1], hl[2])

(***************************************************************************)
(* loop(), lines 769-778: the sequencer, then the key scan                 *)
(***************************************************************************)
\* a tape read that returns the byte after the one addressed
memReadNext(i, g) == IF i + 1 < Len(mem) THEN mem[i + 2] ELSE g

memRead(i, g) == IF i < Len(mem) THEN mem[i + 1] ELSE g

\* a sequencer that does not lock after reading a tape byte
SequencerNoLock(q, g) ==
  IF q.isrun /\ ~q.islock
  THEN IF q.count > 5
       THEN LET cmd == memRead(q.memp, g)
                q1 == [q EXCEPT !.count = q.count + 1, !.memp = q.memp + 1,
                                !.unframed = TRUE,
                                !.ub = q.ub \/ q.memp >= Len(mem)]
            IN  IF cmd = _END
                THEN [q1 EXCEPT !.isrun = FALSE, !.display_update = TRUE,
                                !.msgnr = 0]
                ELSE [q1 EXCEPT !.key_code = cmd,
                                !.injected = Append(q.injected, cmd)]
       ELSE [q EXCEPT !.count = q.count + 1]
  ELSE q

\* a sequencer that never reads the tape
SequencerIdle(q, g) == q

\* a sequencer that reads one iteration early
SequencerEarly(q, g) ==
  IF q.isrun /\ ~q.islock
  THEN IF q.count > 4
       THEN LET cmd == memRead(q.memp, g)
                q1 == [q EXCEPT !.count = q.count + 1, !.memp = q.memp + 1,
                                !.islock = TRUE, !.unframed = TRUE,
                                !.ub = q.ub \/ q.memp >= Len(mem)]
            IN  IF cmd = _END
                THEN [q1 EXCEPT !.isrun = FALSE, !.display_update = TRUE,
                                !.msgnr = 0]
                ELSE [q1 EXCEPT !.key_code = cmd,
                                !.injected = Append(q.injected, cmd)]
       ELSE [q EXCEPT !.count = q.count + 1]
  ELSE q

Sequencer(q, g) ==
  IF q.isrun /\ ~q.islock
  THEN IF q.count > 5
       THEN LET cmd == memRead(q.memp, g)
                q1 == [q EXCEPT !.count = q.count + 1, !.memp = q.memp + 1,
                                !.islock = TRUE, !.unframed = TRUE,
                                !.ub = q.ub \/ q.memp >= Len(mem)]
            IN  IF cmd = _END
                THEN [q1 EXCEPT !.isrun = FALSE, !.display_update = TRUE,
                                !.msgnr = 0]
                ELSE [q1 EXCEPT !.key_code = cmd,
                                !.injected = Append(q.injected, cmd)]
       ELSE [q EXCEPT !.count = q.count + 1]
  ELSE q

TapeGarbage(q) ==
  IF q.isrun /\ ~q.islock /\ q.count > 5 /\ q.memp >= Len(mem)
  THEN IF q.memp < MaxTape THEN GarbageBytes ELSE {_END}
  ELSE {0}

getkey(q, keys) ==
  {0, q.oldkey} \cup (IF q.presses < MaxPresses THEN keys ELSE {})

Scan(q, k) ==
  IF k = q.oldkey THEN [q EXCEPT !.key = _END]
  ELSE [q EXCEPT !.key = k, !.oldkey = k,
                 !.presses = IF k # 0 THEN q.presses + 1 ELSE q.presses]

SeqScan(keys) ==
  /\ phase = "seq"
  /\ \E g \in TapeGarbage(Now), k \in getkey(Now, keys) :
       Becomes([Scan(Sequencer(Now, g), k) EXCEPT !.phase = "key"])

SeqStep == SeqScan(PressKeys)

Next == KeyStep \/ RomStep \/ SeqStep

Spec == Init /\ [][Next]_vars

(***************************************************************************)
(* The same machine when loop() is called again and again: the Arduino     *)
(* core calls loop() forever, and every step of loop() moves phase on      *)
(***************************************************************************)
Advance == phase' \in {"key", "rom", "seq"} /\ phase' # phase

SpecLive == Spec /\ WF_phase(Advance)

(***************************************************************************)
(* The same machine on a keypad of F and EEX                               *)
(***************************************************************************)
SeqStepEEX == SeqScan(EEXKeys)

NextEEX == KeyStep \/ RomStep \/ SeqStepEEX

SpecEEX == Init /\ [][NextEEX]_vars

(***************************************************************************)
(* The same machine on a keypad of F and 5                                 *)
(***************************************************************************)
SeqStepPV == SeqScan(PVKeys)

NextPV == KeyStep \/ RomStep \/ SeqStepPV

SpecPV == Init /\ [][NextPV]_vars

(***************************************************************************)
(* The same machine on a keypad of F and the decimal point                 *)
(***************************************************************************)
SeqStepHYP == SeqScan(HYPKeys)

NextHYP == KeyStep \/ RomStep \/ SeqStepHYP

SpecHYP == Init /\ [][NextHYP]_vars

(***************************************************************************)
(* The machine with no key pressed, while the key codes of 12 ENTER 34 +   *)
(* are written to key_code one at a time (as line 751 writes them), each   *)
(* at any iteration after the previous one was taken by a jump-on-key and  *)
(* a frame was projected; here presses counts the codes written and        *)
(* unframed tells that no frame was projected since power-on or since the  *)
(* last code was written                                                   *)
(***************************************************************************)
TypedCodes == << 28, 27, 62, 26, 20, 22 >>

InitType == Starts([PowerOn EXCEPT !.unframed = TRUE])

Consumed == key_code = _END /\ ~pending /\ ~unframed

TypeStep ==
  /\ phase = "key" /\ Consumed /\ presses < Len(TypedCodes)
  /\ Becomes([Now EXCEPT !.key_code = TypedCodes[presses + 1],
                          !.presses = presses + 1, !.unframed = TRUE])

SeqStepType == SeqScan({})

NextType == KeyStep \/ RomStep \/ SeqStepType \/ TypeStep

SpecType == InitType /\ [][NextType]_vars

(***************************************************************************)
(* One microcycle on every pair (h, l), from a family of engine states     *)
(***************************************************************************)
FetchH == 0 .. 3

FetchL == 0 .. 255

Ramp(k) == [i \in RegIdx |-> (i + k) % 10]

DecodeStates ==
  {[PowerOn EXCEPT !.phase = "rom", !.key = _END, !.oldkey = 0, !.fg = 0,
                   !.a = Ramp(1), !.b = Ramp(2), !.c = Ramp(3), !.d = Ramp(4),
                   !.e = Ramp(5), !.f = Ramp(6), !.m = Ramp(7), !.t = Ramp(8),
                   !.key_rom = 36, !.ret = 77, !.islock = TRUE, !.count = 3,
                   !.key_code = kc, !.carry = cy, !.p = pp, !.pc = pcc,
                   !.display_enable = de, !.display_update = du, !.s = st] :
     kc \in {_END, 28}, cy \in {0, 1}, pp \in {3, 15}, pcc \in {ERRORPC, 255},
     de \in BOOLEAN, du \in BOOLEAN, st \in {ZeroStatus, OnesStatus}}

InitDecode == \E q \in DecodeStates : Starts(q)

DecodeStep ==
  /\ phase = "rom"
  /\ \E h \in FetchH, l \in FetchL : Microcycle(h, l)

NextDecode == DecodeStep

SpecDecode == InitDecode /\ [][NextDecode]_vars

(***************************************************************************)
(* One microcycle on every pair (h, l), followed by a conditional branch   *)
(***************************************************************************)
BranchPairs == {<< 0, 3 >>, << 3, 35 >>}

FollowStep ==
  /\ phase = "seq"
  /\ \E br \in BranchPairs :
       Becomes([process_rom(Now, br[1], br[2], NoUB) EXCEPT !.phase = "key"])

NextFollow == DecodeStep \/ FollowStep

SpecFollow == InitDecode /\ [][NextFollow]_vars

(***************************************************************************)
(* Key latch, lines 527-529                                                *)
(***************************************************************************)
ClearsS0(h, l) ==
  \/ IsJumpKey(h, l)
  \/ IsStatusClear(h, l) /\ bitsel(h, l) = 0
  \/ IsStatusClearAll(h, l)

\* C1: a microcycle that begins with the latch full moves the latched code
\* to key_rom and sets s[0] before the fetched instruction acts (a status
\* test of bit 0 reads 1, a jump-on-key goes to the code just latched, and
\* s[0] ends as 1 unless the instruction itself clears it); every microcycle
\* ends with the latch empty; one that begins with the latch empty leaves
\* key_rom unchanged.
C1_KeyLatch ==
  [][phase = "rom" =>
       /\ key_code' = _END
       /\ key_code # _END =>
            /\ key_rom' = key_code
            /\ s'[0] = IF ClearsS0(fetch_h', fetch_l') THEN 0 ELSE 1
            /\ IsStatusTest(fetch_h', fetch_l') /\ bitsel(fetch_h', fetch_l') = 0
                 => carry' = 1
            /\ IsJumpKey(fetch_h', fetch_l') => pc' = key_code
       /\ key_code = _END => key_rom' = key_rom]_vars

\* a status test of bit 0 in a cycle that began with the latch full and
\* s[0] = 0 in the family of start states has read the 1 set by the latch
C1_Witness ==
  /\ phase = "seq" /\ key_rom = 28 /\ key_code = _END /\ pending
  /\ IsStatusTest(fetch_h, fetch_l) /\ bitsel(fetch_h, fetch_l) = 0
  /\ carry = 1 /\ s[0] = 1 /\ s[1] = 0

(***************************************************************************)
(* Conditional branch, lines 522-525 and 579-580                           *)
(***************************************************************************)
\* C9: a conditional branch (l & 3 = 3) is taken iff the carry left by the
\* preceding microcycle is not 1: prevCarry is the carry as the cycle began,
\* the branch goes to its target when that carry is not 1, and otherwise pc
\* is the fetch address plus 1 modulo 256.
C9_Branch ==
  [][phase = "rom" /\ IsBranch(fetch_h', fetch_l') =>
       /\ prevCarry' = carry
       /\ pc' = IF carry # 1
                THEN branch_target(fetch_h', fetch_l')
                ELSE (pc + 1) % 256]_vars

\* a branch to address 200 not taken at fetch address 255: pc wrapped to 0
C9_Witness ==
  /\ phase = "seq" /\ IsBranch(fetch_h, fetch_l)
  /\ branch_target(fetch_h, fetch_l) = 200
  /\ prevCarry = 1 /\ carry = 0 /\ pc = 0

(***************************************************************************)
(* The decoding rules, lines 530-581                                       *)
(***************************************************************************)
Rules(h, l) ==
  << IsCall(h, l), IsReturn(h, l), IsRomSelect(h, l), IsJumpKey(h, l),
     IsStatusTest(h, l), IsStatusSet(h, l), IsStatusClear(h, l),
     IsStatusClearAll(h, l), IsPointerTest(h, l), IsPointerSet(h, l),
     IsPointerInc(h, l), IsPointerDec(h, l), IsLoadConst(h, l),
     IsSwapCM(h, l), IsPush(h, l), IsPop(h, l), IsMtoC(h, l), IsRotate(h, l),
     IsClearRegs(h, l), IsDisplayOff(h, l), IsDisplayToggle(h, l),
     IsBranch(h, l), IsArith(h, l) >>

Triggered(h, l) == {i \in 1 .. Len(Rules(h, l)) : Rules(h, l)[i]}

Exclusive ==
  /\ Cardinality(Triggered(fetch_h', fetch_l')) <= 1
  /\ ~(IsDisplayOff(fetch_h', fetch_l') /\ IsDisplayToggle(fetch_h', fetch_l'))

\* what a microcycle does whatever the pair: fetch and key latch
Prelude ==
  /\ pc' = (pc + 1) % 256 /\ carry' = 0 /\ prevCarry' = carry
  /\ key_code' = _END
  /\ key_rom' = IF key_code < _END THEN key_code ELSE key_rom
  /\ s' = IF key_code < _END THEN [s EXCEPT ![0] = 1] ELSE s

EngineRest ==
  << a, b, c, d, e, f, m, t, p, ret, offset, first, last, display_enable >>

ShellRest ==
  << brightness, key, oldkey, fg, darkscreen, memp, isrun, armed, injected,
     presses, ub >>

\* C10: over all pairs h in 0..3, l in 0..255 a pair triggers at most one of
\* the 23 decoding rules, and never both display rules; a pair that triggers
\* none has only the effects a microcycle has for every pair: pc + 1, carry
\* cleared, prevCarry, the key latch moved to key_rom with s[0] set, and the
\* error flag and display stage (msgnr, display_update, dbuf, islock, count).
C10_Decoder ==
  [][phase = "rom" =>
       /\ Exclusive
       /\ Triggered(fetch_h', fetch_l') = {} =>
            Prelude /\ UNCHANGED EngineRest /\ UNCHANGED ShellRest]_vars

\* C10 as stated: a pair that triggers no rule changes nothing except pc,
\* carry and prevCarry.
C10_Original ==
  [][phase = "rom" =>
       /\ Exclusive
       /\ Triggered(fetch_h', fetch_l') = {} =>
            /\ UNCHANGED EngineRest /\ UNCHANGED ShellRest
            /\ UNCHANGED << s, key_code, key_rom, display_update, msgnr, dbuf,
                            islock, count >>]_vars

\* the pair (0, 0) has triggered no rule, with the latch full as it began
C10_Witness ==
  /\ phase = "seq" /\ fetch_h = 0 /\ fetch_l = 0
  /\ Triggered(fetch_h, fetch_l) = {}
  /\ key_rom = 28 /\ pc = 0 /\ prevCarry = 1

(***************************************************************************)
(* Status bit 0 and the key waiting in key_rom, lines 527-529 and 536-545  *)
(***************************************************************************)
\* C2: s[0] = 1 only while a key code moved to key_rom has not been consumed
\* by a jump-on-key; no instruction the microcode executes sets s[0] without
\* a key, while the microcode does clear s[0] before its jump-on-key.
C2_StatusZero == s[0] = 1 => pending

\* C2 as stated: s[0] = 1 exactly while a key waits for its jump-on-key.
C2_Original == s[0] = 1 <=> pending

\* a key just latched: s[0] raised, its jump-on-key still to come
C2_Witness == phase = "seq" /\ pending /\ s[0] = 1 /\ key_rom = 50

(***************************************************************************)
(* Extended key codes, lines 749-764 and 527-529                           *)
(***************************************************************************)
Extended == _HYP .. (_LIT + Len(c2m))

\* C3 as stated: key_rom never takes an extended key code 64..77, so s[0]
\* is never raised on behalf of one.
C3_Original == key_rom \notin Extended

(***************************************************************************)
(* The key latch across loop iterations, lines 739-779                     *)
(***************************************************************************)
Dispatches == phase = "key" /\ key # 0 /\ key < _END /\ key # _KF

Injects == phase = "seq" /\ Len(injected') > Len(injected)

\* C4 as stated: every write to key_code, by the key dispatcher or by the
\* sequencer, finds the latch empty: no latched code is overwritten unread.
C4_Original == [][Dispatches \/ Injects => key_code = _END]_vars

(***************************************************************************)
(* Pacing of the sequencer, lines 769-776 and 680-684                      *)
(***************************************************************************)
TapeRead == phase = "seq" /\ memp' # memp

\* C5: the sequencer reads a tape byte only while islock is false, every
\* read sets islock, only the display projection of a microcycle clears
\* islock, and no tape byte is read while the preceding read has not been
\* followed by a projection.
C5_Pacing ==
  [][/\ TapeRead => ~islock /\ islock' /\ memp' = memp + 1 /\ ~unframed
     /\ islock /\ ~islock' => phase = "rom" /\ framed']_vars

\* two tape bytes have been read, with a projection in between
C5_Witness ==
  /\ phase = "key" /\ Len(injected) = 2 /\ islock /\ unframed /\ isrun

(***************************************************************************)
(* Break, lines 741-743 and 769-776                                        *)
(***************************************************************************)
KeyPressed == phase = "key" /\ key # 0 /\ key < _END

ReadsEnd == TapeRead /\ injected' = injected

\* C6: once armed the sequencer stays armed until it reads _END or a key
\* press is executed; every key press executed while isrun is true breaks
\* the script: isrun is cleared and the rest of the tape is not injected,
\* unless the key arms a function, which starts at that function's entry.
C6_Break ==
  [][isrun =>
       IF KeyPressed
       THEN /\ injected' = << >>
            /\ isrun' => armed' >= 0 /\ memp' = c2mRead(armed', memp')
       ELSE isrun' \/ ReadsEnd]_vars

\* C6 as stated: isrun falls only when the sequencer reads _END.
C6_Original == [][isrun /\ ~isrun' => ReadsEnd]_vars

\* P->R broken by F after its first byte: not armed, tape pointer mid-script
C6_Witness ==
  /\ phase = "rom" /\ ~isrun /\ armed = -1 /\ fg = 1
  /\ memp = c2m[2] + 1 /\ mem[memp + 1] # _END

(***************************************************************************)
(* The tape pointer, lines 760-776                                         *)
(***************************************************************************)
\* C7 as stated: while armed the tape pointer lies within mem[].
C7_Original == isrun => 0 <= memp /\ memp < Len(mem)

(***************************************************************************)
(* What a script injects, lines 760-763 and 769-776                        *)
(***************************************************************************)
\* C8: from arming function number `armed` of c2m, with no key pressed
\* since, the codes the sequencer has written are the bytes of mem[] from
\* the entry c2m[armed] on, in order, none of them _END; while armed the
\* tape pointer is just behind them; when the script has ended the byte
\* after them is the _END that stopped it.
C8_Tape ==
  armed \in 0 .. (Len(c2m) - 1) =>
    LET entry == c2m[armed + 1]
        n == Len(injected)
    IN  /\ \A i \in 1 .. n :
             injected[i] = mem[entry + i] /\ injected[i] # _END
        /\ isrun => memp = entry + n
        /\ ~isrun => memp = entry + n + 1 /\ mem[entry + n + 1] = _END

\* P->R has run to its _END: all 16 bytes injected
C8_Witness ==
  /\ armed = 1 /\ ~isrun /\ Len(injected) = 16
  /\ memp = c2m[3] /\ injected[16] = mem[c2m[3] - 1]

(***************************************************************************)
(* One arithmetic microcycle on every opcode and slice, and a push         *)
(* followed by a pop, from a family of register contents                   *)
(***************************************************************************)
Const(v) == [i \in RegIdx |-> v]

AluStates ==
  {[PowerOn EXCEPT !.phase = "rom", !.key = _END, !.oldkey = 0, !.fg = 0,
                   !.d = Ramp(4), !.e = Ramp(5), !.f = Ramp(6), !.m = Ramp(7),
                   !.t = Ramp(8), !.s = OnesStatus, !.pc = 17,
                   !.carry = 1, !.a = ra, !.b = rb, !.c = rc, !.p = pp,
                   !.key_code = kc] :
     ra \in {Ramp(1), Const(9), Const(5)}, rb \in {Ramp(2), Const(9)},
     rc \in {Ramp(3), Const(0), Const(5)}, pp \in 0 .. (RSIZE - 1),
     kc \in {_END, 28}}

InitAlu == \E q \in AluStates : Starts(q)

ArithPairs == {hl \in FetchH \X FetchL : IsArith(hl[1], hl[2])}

ArithStep ==
  /\ phase = "rom"
  /\ \E hl \in ArithPairs : Microcycle(hl[1], hl[2])

PushPair == << 1, 40 >>

PopPair == << 1, 168 >>

PushPopStep ==
  /\ phase = "rom"
  /\ LET pushed == process_rom(Now, PushPair[1], PushPair[2], NoUB)
         popped == process_rom(pushed, PopPair[1], PopPair[2], NoUB)
     IN  Becomes([popped EXCEPT !.phase = "key"])

NextAlu == ArithStep \/ PushPopStep

SpecAlu == InitAlu /\ [][NextAlu]_vars

(***************************************************************************)
(* One microcycle on every pair, a call then a return, and two calls then  *)
(* a return, from a family of addresses                                    *)
(***************************************************************************)
CallStates ==
  {[PowerOn EXCEPT !.phase = "rom", !.key = _END, !.oldkey = 0, !.fg = 0,
                   !.s = OnesStatus, !.pc = pcc, !.ret = rr] :
     pcc \in {100, 255}, rr \in {77, 5}}

InitCall == \E q \in CallStates : Starts(q)

CallTargets == {10, 200, 255}

CallPairs ==
  {hl \in FetchH \X FetchL :
     IsCall(hl[1], hl[2]) /\ call_target(hl[1], hl[2]) \in CallTargets}

ReturnPairs == {hl \in FetchH \X FetchL : IsReturn(hl[1], hl[2])}

CallReturnStep ==
  /\ phase = "rom"
  /\ \E cl \in CallPairs, rt \in ReturnPairs :
       LET called == process_rom(Now, cl[1], cl[2], NoUB)
           back == process_rom(called, rt[1], rt[2], NoUB)
       IN  Becomes([back EXCEPT !.phase = "key"])

CallCallReturnStep ==
  /\ phase = "rom"
  /\ \E c1 \in CallPairs, c2 \in CallPairs, rt \in ReturnPairs :
       LET called == process_rom(Now, c1[1], c1[2], NoUB)
           again == process_rom(called, c2[1], c2[2], NoUB)
           back == process_rom(again, rt[1], rt[2], NoUB)
       IN  Becomes([back EXCEPT !.phase = "rom"])

NextCall == DecodeStep \/ CallReturnStep \/ CallCallReturnStep

SpecCall == InitCall /\ [][NextCall]_vars

(***************************************************************************)
(* The slice of an arithmetic instruction, lines 581-678                   *)
(***************************************************************************)
OutsideSlice == {i \in RegIdx : i < first' \/ i > last'}

\* C11: an arithmetic instruction (l & 3 = 2), for every opcode 0..31, slice
\* code 0..7 and pointer 0..15, leaves every nibble of a, b, c and t outside
\* first..last as it was and does not touch d, e, f, m and p; s is as the
\* key latch stage of the cycle left it.
C11_Frame ==
  [][phase = "rom" /\ IsArith(fetch_h', fetch_l') =>
       /\ first' = slice_first(slice_code(fetch_l'), p)
       /\ last' = slice_last(slice_code(fetch_l'), p)
       /\ \A i \in OutsideSlice :
            a'[i] = a[i] /\ b'[i] = b[i] /\ c'[i] = c[i] /\ t'[i] = t[i]
       /\ UNCHANGED << d, e, f, m, p >>
       /\ s' = IF key_code < _END THEN [s EXCEPT ![0] = 1] ELSE s]_vars

\* 0 -> A on the pointer slice with p = 5 has cleared a[5] and nothing else
C11_Witness ==
  /\ phase = "seq" /\ IsArith(fetch_h, fetch_l)
  /\ op_code(fetch_h, fetch_l) = 23 /\ slice_code(fetch_l) = 0
  /\ p = 5 /\ first = 5 /\ last = 5
  /\ a = [Ramp(1) EXCEPT ![5] = 0]

(***************************************************************************)
(* Decimal addition over a slice, lines 501-508 and 622-670                *)
(***************************************************************************)
\* the nibbles lo..hi of r read as a decimal number, r[lo] least significant
RECURSIVE DigitsVal(_, _, _)
DigitsVal(r, lo, hi) ==
  IF hi < lo THEN 0 ELSE r[lo] + 10 * DigitsVal(r, lo + 1, hi)

RECURSIVE Pow10(_)
Pow10(n) == IF n = 0 THEN 1 ELSE 10 * Pow10(n - 1)

\* numbers of up to 16 digits are handled as a low limb of at most 7 digits
\* and a high limb of at most 9, each of which fits a 32-bit integer
LimbLen == WSIZE \div 2

LimbTop(fi, la) == IF la < fi + LimbLen THEN la ELSE fi + LimbLen - 1

AllDecimal(r, fi, la) == \A i \in fi .. la : r[i] \in 0 .. 9

\* res holds the digits of (x + y) mod 10^n on fi..la, cy is the carry out
IsDecimalSum(x, y, res, cy, fi, la) ==
  LET mid == LimbTop(fi, la)
      low == DigitsVal(x, fi, mid) + DigitsVal(y, fi, mid)
      k == low \div Pow10(mid - fi + 1)
      high == DigitsVal(x, mid + 1, la) + DigitsVal(y, mid + 1, la) + k
  IN  /\ AllDecimal(res, fi, la)
      /\ DigitsVal(res, fi, mid) = low % Pow10(mid - fi + 1)
      /\ DigitsVal(res, mid + 1, la) = high % Pow10(la - mid)
      /\ (cy = 1) <=> high >= Pow10(la - mid)
      /\ cy \in {0, 1}

\* C12: for the adds A+C->C (14), A+B->A (28) and A+C->A (30) over a slice
\* whose operand nibbles are all 0..9, the slice of the target holds the
\* decimal digits of (x + y) mod 10^n, lowest index least significant, and
\* carry is 1 exactly when x + y >= 10^n.
C12_DecimalAdd ==
  [][phase = "rom" /\ IsArith(fetch_h', fetch_l') =>
       LET op == op_code(fetch_h', fetch_l')
           fi == first'
           la == last'
       IN  /\ op = 14 /\ AllDecimal(a, fi, la) /\ AllDecimal(c, fi, la)
                => IsDecimalSum(a, c, c', carry', fi, la)
           /\ op = 28 /\ AllDecimal(a, fi, la) /\ AllDecimal(b, fi, la)
                => IsDecimalSum(a, b, a', carry', fi, la)
           /\ op = 30 /\ AllDecimal(a, fi, la) /\ AllDecimal(c, fi, la)
                => IsDecimalSum(a, c, a', carry', fi, la)]_vars

\* A+C->C on the whole word: 99999999999999 + 55555555555555 has left
\* 55555555555554 in c and the carry set
C12_Witness ==
  /\ phase = "seq" /\ IsArith(fetch_h, fetch_l)
  /\ op_code(fetch_h, fetch_l) = 14 /\ first = 0 /\ last = WSIZE - 1
  /\ a = Const(9) /\ c = [Const(5) EXCEPT ![0] = 4] /\ carry = 1

(***************************************************************************)
(* Decimal nibbles, lines 501-516, 553-556 and 595-677                     *)
(***************************************************************************)
RomPairs == {<< rom[2 * k + 1], rom[2 * k + 2] >> : k \in 0 .. (Len(rom) \div 2 - 1)}

LoadConstantsDecimal ==
  \A hl \in RomPairs :
    IsLoadConst(hl[1], hl[2]) => const_nibble(hl[1], hl[2]) \in 0 .. 9

DigitAluDecimal ==
  \A x \in 0 .. 9, y \in 0 .. 9, cy \in {0, 1} :
    do_add(x, y, cy).v \in 0 .. 9 /\ do_sub(x, y, cy).v \in 0 .. 9

NonDecimalLoad(h, l) == IsLoadConst(h, l) /\ const_nibble(h, l) > 9

ACTDecimal ==
  /\ AllDecimal(a, 0, RSIZE - 1)
  /\ AllDecimal(c, 0, RSIZE - 1)
  /\ AllDecimal(t, 0, RSIZE - 1)

PushThenPop == phase = "rom" /\ phase' = "key"

\* C14: a push (c to stack) followed by a pop (stack to a) restores d and e,
\* leaves c as it was and copies it to a, and leaves in f the former e: the
\* former f is lost from the display-size part of the register.
C14_PushPop ==
  [][PushThenPop =>
       /\ d' = d /\ e' = e /\ c' = c
       /\ a' = memcpy(a, c)
       /\ f' = memcpy(f, e)]_vars

\* C14 as stated: push then pop restores d, e and f and leaves c the pushed
\* value.
C14_Original == [][PushThenPop => d' = d /\ e' = e /\ f' = f /\ c' = c]_vars

\* after push and pop: d and e as before, f holds the former e
C14_Witness ==
  /\ phase = "key" /\ fetch_h = PopPair[1] /\ fetch_l = PopPair[2]
  /\ d = Ramp(4) /\ e = Ramp(5) /\ f = memcpy(Ramp(6), Ramp(5))
  /\ c = Ramp(3) /\ a = memcpy(Const(9), Ramp(3))

(***************************************************************************)
(* The error banner, lines 520 and 769-776                                 *)
(***************************************************************************)
\* C15 as stated: once msgnr = MSGERROR, only the handling of a key press
\* changes msgnr.
C15_Original == [][msgnr = MSGERROR /\ msgnr' # MSGERROR => KeyPressed]_vars

(***************************************************************************)
(* When printscreen runs, lines 576-578 and 680-684                        *)
(***************************************************************************)
FallingEdge == display_enable /\ ~display_enable'

\* C16: printscreen runs in a microcycle exactly when the cycle ends with
\* display_enable false and display_update still set, that is when
\* display_update was set as the cycle began and the instruction is not
\* display-disable; it clears islock and count, and every microcycle ends
\* with display_update equal to display_enable.  So a falling edge made by
\* display-toggle projects, one made by display-disable does not, and a key
\* press or the end of a script projects with no edge at all.
C16_Projector ==
  [][phase = "rom" =>
       /\ framed' <=> /\ ~display_enable'
                      /\ display_update
                      /\ ~IsDisplayOff(fetch_h', fetch_l')
       /\ framed' => ~islock' /\ count' = 0
       /\ display_update' = display_enable']_vars

\* C16 as stated: printscreen runs exactly in the microcycles in which
\* display_enable falls.
C16_Original == [][phase = "rom" => (framed' <=> FallingEdge)]_vars

\* a projection in the microcycle after a key press, by an instruction
\* that is not a display instruction: display_enable was false all along
C16_Witness ==
  /\ phase = "seq" /\ framed /\ ~display_enable
  /\ key # 0 /\ key < _END
  /\ ~IsDisplayToggle(fetch_h, fetch_l) /\ ~IsDisplayOff(fetch_h, fetch_l)

(***************************************************************************)
(* The ROM bank, lines 493, 522-524 and 535                                *)
(***************************************************************************)
Banks == 0 .. (Len(rom) \div (256 * 2) - 1)

BankSelects == {hl \in RomPairs : IsRomSelect(hl[1], hl[2])}

\* C17: offset is always one of the banks 0..2 of the image, both bytes of
\* the next fetch lie inside rom[], and every bank-select instruction
\* stored in the image selects one of the banks 0..2.
C17_Banks ==
  /\ Banks = 0 .. 2
  /\ offset \in Banks
  /\ RomIndex(Now) >= 0 /\ RomIndex(Now) + 1 < Len(rom)
  /\ \A hl \in BankSelects : bank_target(hl[1], hl[2]) \in Banks

\* a bank-select instruction has just moved the engine into bank 2
C17_Witness ==
  /\ phase = "seq" /\ IsRomSelect(fetch_h, fetch_l)
  /\ offset = 2 /\ bank_target(fetch_h, fetch_l) = 2

(***************************************************************************)
(* The function layer, lines 744-756                                       *)
(***************************************************************************)
Layers == 0 .. (Len(k2c) \div KEYS - 1)

\* C18: fg is always one of the four layers 0..3 (layer 3 is the one that
\* HYP selects), and the dispatch index fg * KEYS + key - 1 of every key
\* press falls within the four 16-entry rows of k2c.
C18_Layer ==
  /\ Layers = 0 .. 3
  /\ fg \in Layers
  /\ KeyPressed => key \in 1 .. KEYS /\ fg * KEYS + key - 1 < Len(k2c)

\* C18 as stated: fg is always 0, 1 or 2.
C18_Original == fg \in 0 .. 2

\* a key is about to be dispatched from the row that HYP selected
C18_Witness == KeyPressed /\ key # _KF /\ fg = 3 /\ msgnr = MSGHYP

(***************************************************************************)
(* The F key and the dark screen, lines 741-753                            *)
(***************************************************************************)
FPressed == KeyPressed /\ key = _KF

\* successive F presses count fg 0, 1, 2 and the third one darkens
FCycle ==
  FPressed /\ fg \in 0 .. 2 =>
     /\ fg' = (fg + 1) % 3
     /\ darkscreen' <=> fg = 2

\* a key other than F leaves the function layer, unless it is HYP
LayerReset ==
  KeyPressed /\ key # _KF => fg' = IF key_code' = _HYP THEN 3 ELSE 0

\* C19 as stated: from fg = 0 successive F presses take fg to 1, to 2, and
\* the third sets darkscreen and returns fg to 0; every key press other than
\* that third F press (the F press at fg = 2) leaves darkscreen false; every
\* key press other than F resets fg to 0 unless the key is HYP.
C19_Original ==
  [][/\ FCycle
     /\ LayerReset
     /\ KeyPressed /\ ~(key = _KF /\ fg = 2) => ~darkscreen']_vars

(***************************************************************************)
(* 12 ENTER 34 +, end to end                                               *)
(***************************************************************************)
Shows46 ==
  [pos \in 0 .. (DIGITS - 1) |->
     CASE pos = 1 -> digit[4 + 1]
       [] pos = 2 -> digit[6 + 1] + _7DOT
       [] OTHER -> 0]

Ticking == phase = "seq" /\ isrun /\ ~islock

\* count is reset by a projection and advanced by an armed, unlocked
\* iteration, and by nothing else; the byte is read by the iteration that
\* finds count = 6
SixTicks ==
  /\ count' # count => \/ phase = "rom" /\ framed' /\ count' = 0
                       \/ Ticking /\ count' = count + 1
  /\ Ticking => count <= 6 /\ count' = count + 1
  /\ TapeRead <=> Ticking /\ count = 6

\* C21: while armed and unlocked the sequencer reads its next tape byte in
\* the iteration that finds count = 6, that is after exactly six armed and
\* unlocked iterations since the projection that reset count, no sooner
\* and no later; for every byte after the first of a script the counting
\* starts in the iteration of the projection that cleared islock, so the
\* byte is read on the 6th iteration after it.
C21_SixthTick ==
  [][/\ SixTicks
     /\ Ticking /\ count = 0 /\ injected # << >> => framed]_vars

\* C21 as stated: every byte is read on the 6th iteration after the frame
\* boundary that reset the counter, so the counting always starts in the
\* iteration of a projection.
C21_Original == [][SixTicks /\ (Ticking /\ count = 0 => framed)]_vars

\* the second byte of a script has just been read, six ticks after the
\* projection that followed the first
C21_Witness ==
  /\ phase = "key" /\ isrun /\ islock /\ count = 7 /\ Len(injected) = 2

(***************************************************************************)
(* Call and return, lines 530-534                                          *)
(***************************************************************************)
OneCycle == phase = "rom" /\ phase' = "seq"

CallThenReturn == phase = "rom" /\ phase' = "key"

TwoCallsThenReturn == phase = "rom" /\ phase' = "rom"

\* a status set or clear whose bit number lies outside s[]
StatusOutside(h, l) ==
  (IsStatusSet(h, l) \/ IsStatusClear(h, l)) /\ bitsel(h, l) >= SSIZE

CallLink ==
  OneCycle /\ IsCall(fetch_h', fetch_l') =>
    ret' = (pc + 1) % 256 /\ pc' = call_target(fetch_h', fetch_l')

ReturnLink ==
  OneCycle /\ IsReturn(fetch_h', fetch_l') => pc' = ret /\ ret' = ret

OneLevel ==
  /\ CallThenReturn => pc' = (pc + 1) % 256 /\ ret' = pc'
  /\ TwoCallsThenReturn =>
       /\ pc' = ret'
       /\ \E cl \in CallPairs : pc' = (call_target(cl[1], cl[2]) + 1) % 256
       /\ pc' = (pc + 1) % 256 =>
            \E cl \in CallPairs : call_target(cl[1], cl[2]) = pc

ReadEnd == ~isrun /\ armed >= 0

\* C23: once the sequencer is armed, if no key press is executed any more
\* and islock is cleared again and again, then the sequencer eventually
\* reads _END and disarms; while armed it has injected fewer bytes than the
\* tape holds.
C23_Disarms ==
  /\ [](isrun => ([]~KeyPressed /\ []<>~islock => <>ReadEnd))
  /\ [](isrun => Len(injected) < Len(mem))

\* the sequencer has read the _END of its script after injecting bytes
C23_Witness ==
  /\ phase = "key" /\ ReadEnd /\ islock /\ injected # << >>
  /\ mem[memp] = _END

(***************************************************************************)
(* The test instructions, lines 596-597, 602-604, 633-634, 640-641, 647-649*)
(***************************************************************************)
TestOps == {0, 3, 13, 16, 19}

SomeNonZero(r) == \E i \in first' .. last' : r[i] # 0

\* x < y as decimal numbers on fi..la: they differ, and at the highest
\* nibble where they differ x has the smaller digit
LessOver(x, y, fi, la) ==
  \E i \in fi .. la :
    /\ x[i] < y[i]
    /\ \A j \in (i + 1) .. la : x[j] = y[j]

\* the carry that the decrement with the same slice (the pair with h + 1:
\* op 11 for op 3, op 27 for op 19) leaves
DecrementBorrow == Execute(Now, fetch_h' + 1, fetch_l', NoUB).carry

\* C24: the test instructions 0 (0+B), 3 (C-1), 13 (0-C), 16 (A-B) and 19
\* (A-1) leave a, b and c as they were, on every slice; op 0 sets carry iff
\* some nibble of b in the slice is not 0, op 13 iff some nibble of c is not
\* 0; op 3 (op 19) sets carry iff every nibble of c (of a) in the slice is
\* 0, which is the borrow the decrement 11 (27) leaves on that slice; op 16
\* changes only t, whose slice then holds the digits of a - b modulo 10^n,
\* with carry set iff a < b over the slice.
C24_Tests ==
  [][phase = "rom" /\ phase' = "seq" /\ IsArith(fetch_h', fetch_l')
       /\ op_code(fetch_h', fetch_l') \in TestOps =>
       LET op == op_code(fetch_h', fetch_l')
       IN  /\ a' = a /\ b' = b /\ c' = c
           /\ op # 16 => t' = t
           /\ op = 0 => (carry' = 1 <=> SomeNonZero(b))
           /\ op = 13 => (carry' = 1 <=> SomeNonZero(c))
           /\ op = 3 => (carry' = 1 <=> ~SomeNonZero(c))
                        /\ carry' = DecrementBorrow
           /\ op = 19 => (carry' = 1 <=> ~SomeNonZero(a))
                         /\ carry' = DecrementBorrow
           /\ op = 16 => /\ carry' = 1 <=> LessOver(a, b, first', last')
                         /\ IsDecimalSum(t', b, a, carry', first', last')
           /\ carry' \in {0, 1}]_vars

\* A-B on the whole word with a = 55555555555555 and b = 99999999999999:
\* t holds 55555555555556 and the carry says a < b
C24_Witness ==
  /\ phase = "seq" /\ IsArith(fetch_h, fetch_l)
  /\ op_code(fetch_h, fetch_l) = 16 /\ first = 0 /\ last = WSIZE - 1
  /\ a = Const(5) /\ b = Const(9) /\ carry = 1
  /\ t[0] = 6 /\ \A i \in 1 .. (WSIZE - 1) : t[i] = 5

(***************************************************************************)
(* Rotate down, lines 569-573                                              *)
(***************************************************************************)
Rotates == phase = "rom" /\ phase' = "seq" /\ IsRotate(fetch_h', fetch_l')

\* C25: the rotate-down instruction (h & 3 = 3, l & 0xEF = 0x28) moves the
\* WSIZE nibbles of d to c, of e to d, of f to e and of c to f: after it c
\* holds the previous d, d the previous e, e the previous f and f the
\* previous c; a, b and m are unchanged.
C25_RotateDown ==
  [][Rotates =>
       /\ c' = memcpy(c, d) /\ d' = memcpy(d, e)
       /\ e' = memcpy(e, f) /\ f' = memcpy(f, c)
       /\ a' = a /\ b' = b /\ m' = m]_vars

\* C25 as stated: after it d holds the previous c, e the previous d, f the
\* previous e and c the previous f; a, b and m are unchanged.
C25_Original ==
  [][Rotates =>
       /\ d' = memcpy(d, c) /\ e' = memcpy(e, d)
       /\ f' = memcpy(f, e) /\ c' = memcpy(c, f)
       /\ a' = a /\ b' = b /\ m' = m]_vars

\* after a rotation of the registers of the family: c holds what d held
\* and f what c held
C25_Witness ==
  /\ phase = "seq" /\ IsRotate(fetch_h, fetch_l)
  /\ \A i \in 0 .. (WSIZE - 1) :
       /\ c[i] = Ramp(4)[i] /\ d[i] = Ramp(5)[i]
       /\ e[i] = Ramp(6)[i] /\ f[i] = Ramp(3)[i]

(***************************************************************************)
(* Where carry comes from, lines 522, 541-549 and 594                      *)
(***************************************************************************)
SetsCarry(h, l) == IsArith(h, l) \/ IsStatusTest(h, l) \/ IsPointerTest(h, l)

BranchFollows == phase = "seq" /\ phase' = "key" /\ IsBranch(fetch_h', fetch_l')

\* C26: a microcycle whose instruction is neither arithmetic (l & 3 = 2)
\* nor a status test (l3f = 0x14) nor a pointer test (l3f = 0x2C) ends with
\* carry = 0, and a conditional branch executed right after such an
\* instruction is taken: pc becomes its target.
C26_CarryClear ==
  [][/\ phase = "rom" /\ phase' = "seq" /\ ~SetsCarry(fetch_h', fetch_l')
          => carry' = 0
     /\ BranchFollows /\ ~SetsCarry(fetch_h, fetch_l)
          => prevCarry' = 0 /\ pc' = branch_target(fetch_h', fetch_l')]_vars

\* a branch to address 200 taken right after load-constant 9 at p = 3
C26_Witness ==
  /\ phase = "key" /\ IsBranch(fetch_h, fetch_l) /\ pc = 200
  /\ prevCarry = 0 /\ c[3] = 9 /\ p = 2

(***************************************************************************)
(* The status bits the image addresses, lines 540-545, 491 and 403-480     *)
(***************************************************************************)
IsStatusAccess(h, l) ==
  IsStatusTest(h, l) \/ IsStatusSet(h, l) \/ IsStatusClear(h, l)

StatusPairs == {hl \in RomPairs : IsStatusAccess(hl[1], hl[2])}

\* C27: every status test, set and clear stored in the image addresses a
\* bit 0..11, every pair a microcycle executes is a pair of the image, and
\* so no microcycle reads or writes s[] outside its 12 entries.
C27_StatusBits ==
  /\ \A hl \in StatusPairs : bitsel(hl[1], hl[2]) \in 0 .. (SSIZE - 1)
  /\ phase = "seq" =>
       /\ << fetch_h, fetch_l >> \in RomPairs
       /\ StatusUB(fetch_h, fetch_l) = {NoUB}
       /\ IsStatusAccess(fetch_h, fetch_l) => bitsel(fetch_h, fetch_l) < SSIZE

\* the image has just set the highest status bit, s[11]
C27_Witness ==
  /\ phase = "seq" /\ IsStatusSet(fetch_h, fetch_l)
  /\ bitsel(fetch_h, fetch_l) = SSIZE - 1 /\ s[SSIZE - 1] = 1

(***************************************************************************)
(* The nibbles printscreen looks up in digit[], lines 697-718 and 215      *)
(***************************************************************************)
ProjectsStack == phase = "seq" /\ framed /\ msgnr = 0 /\ ~darkscreen

\* C28: whenever printscreen has rendered the stack, every nibble of a it
\* looked up in digit[] (a[i] for i in 6..12 with b[i] < 8, and a[0], a[1]
\* when the exponent is shown) is at most 9, so digit[] is indexed only
\* inside its ten entries.
C28_DigitIndex ==
  ProjectsStack => \A i \in Rendered(Now) : a[i] < Len(digit)

\* a frame whose leading mantissa digit is 9, the last entry of digit[]
C28_Witness ==
  /\ ProjectsStack /\ (WSIZE - 2) \in Rendered(Now)
  /\ a[WSIZE - 2] = Len(digit) - 1

=============================================================================
